---- MODULE Spec2Model ----
(***************************************************************************)
(* State machine of the WhatsApp relay server (src/unnamed/part_001):      *)
(* the session lifecycle controller (startBot and the three handlers it    *)
(* registers on every client handle), the restart timer, the socket.io     *)
(* connection handler, POST /send, GET /session/:id/qr and                 *)
(* GET /session/:id/status.                                                *)
(*                                                                         *)
(* The protocol client, the record store (supabase), the cache/stream      *)
(* store (redis) and the notification channel (io) are external: the       *)
(* client is an event source that may emit any event on any handle that    *)
(* has handlers registered, and every call into a collaborator either      *)
(* returns or throws.  A handler is an async function: it runs             *)
(* synchronously up to its next await, and the awaited call completes in   *)
(* a later step; other handlers may run in between.  One action of the     *)
(* model is one such run: the completion of the awaited call together      *)
(* with the code that follows it up to the next await.  console output is   *)
(* not part of the state: a caught exception ends the run of its handler.  *)
(***************************************************************************)
EXTENDS Integers, Sequences, FiniteSets, TLC

\* ------------------------------------------------------------------ bounds
MaxEvents == 2         \* client events and requests received
MaxRequests == 2       \* POST /send requests among them
MaxInFlight == 2        \* handlers suspended at an await at the same time
MaxObservers == 2      \* socket.io clients that connect
TickSeconds == 200     \* seconds by which one step of the clock advances it
MaxTime == 400         \* the clock stops here

\* ------------------------------------------------------- program constants
MaxMessageLength == 1000   \* message.length > 1000
MinPhoneDigits == 6        \* /^\d{6,20}$/
MaxPhoneDigits == 20
LoggedOutCode == 401       \* DisconnectReason.loggedOut
QrTtl == 300               \* redis.set(..., { ex: 300 })

\* JS null / undefined
Null == "<null>"

\* process.env configuration of the deployment
API_KEY == "secret"
TENANT_ID == "tenantA"
SESSION_ID == "sessionB"

Suffix == <<"@", "s", ".", "w", "h", "a", "t", "s", "a", "p", "p", ".", "n", "e", "t">>

VARIABLES
    sock,        \* let sock: 0 is null, else the handle makeWASocket returned
    nHandles,    \* number of handles constructed so far (handles are 1..nHandles)
    listeners,   \* handles whose ev has the three handlers registered
    latestQr,    \* let latestQr
    timers,      \* pending setTimeout restarts
    tasks,       \* async functions suspended at an await
    nextId,      \* ids given to tasks so far
    wa_sessions, \* supabase table wa_sessions: store_id -> status (Null: no row)
    wa_messages, \* supabase table wa_messages: the rows inserted, in order
    redisQr,     \* redis keys wa:qr:<id> -> code (Null: no key)
    stream,      \* redis stream wa.inbound: the entries added, in order
    emitted,     \* io.emit calls, in order
    sendCalls,   \* sock.sendMessage calls, in order
    received,    \* client events and requests received so far
    requests,    \* POST /send requests received so far
    now,         \* the clock, in seconds
    redisQrEx,   \* redis keys wa:qr:<id> -> the time the key expires at
    observers,   \* socket.io clients connected, with what the connection sent them
    issue,       \* the pairing code last issued by the client (see NoIssue)
    last         \* the step just taken

vars == <<sock, nHandles, listeners, latestQr, timers, tasks, nextId, wa_sessions,
          wa_messages, redisQr, stream, emitted, sendCalls, received, requests, now,
          redisQrEx, observers, issue, last>>


\* ------------------------------------------------------------- data shapes
Falsy(x) == x = Null \/ x = ""

\* update argument of connection.update: statusCode is
\* lastDisconnect?.error?.output?.statusCode (0: undefined)
NoUpd == [connection |-> Null, statusCode |-> 0, qr |-> Null]
\* body and header of a POST /send request; a message is a string of `length`
\* characters
NoReq == [key |-> Null, hasTo |-> FALSE, to |-> <<>>, hasMessage |-> FALSE, length |-> 0]
NoPayload == [tenant_id |-> Null, chat_id |-> <<>>, from |-> <<>>, text |-> Null,
              message_id |-> Null, ts |-> 0]
NoResp == [status |-> 0, body |-> Null]

\* what is recorded about the pairing code held by latestQr: n counts the codes
\* the client has issued, at is the clock when the last one came, revoked tells
\* that a logout close has deleted the cached code since
NoIssue == [n |-> 0, at |-> 0, revoked |-> FALSE]

\* an async function in flight: pc names the call it awaits, h is the handle whose
\* event it handles (for POST /send: the value of sock when the request came),
\* param is req.params.id of a GET /session/:id/... request.
\* Three fields only record what happened: origin (who called startBot), sendOk
\* (sock.sendMessage has returned) and afterLogout (startBot was called by a timer
\* that was pending when status 'logged_out' was stored)
NewTask(id, kind, pc, h) ==
    [id |-> id, kind |-> kind, pc |-> pc, h |-> h, origin |-> Null,
     afterLogout |-> FALSE, upd |-> NoUpd, batch |-> <<>>, payload |-> NoPayload,
     req |-> NoReq, jid |-> <<>>, sendOk |-> FALSE, resp |-> NoResp, param |-> Null]

NoTask == NewTask(0, Null, "done", 0)

\* the step just taken: ok tells that the awaited call returned (did not
\* throw), wrote that it did what it was called for
Step(name, t, ok, emitOk) ==
    [step |-> name, t |-> t, ok |-> ok, wrote |-> ok, emitOk |-> emitOk]

\* how an awaited write to the record store (upsert, insert) ends: the row is
\* written; the call resolves to { data: null, error } and nothing is written
\* (the handlers do not look at the result); the call throws
WriteOutcomes == {"done", "error", "throw"}
Returned(out) == out # "throw"
Wrote(out) == out = "done"

StepWrite(name, t, out, emitOk) ==
    [Step(name, t, Returned(out), emitOk) EXCEPT !.wrote = Wrote(out)]

\* io.emit(ev, data)
Ev(ev) == [ev |-> ev, qr |-> Null, from |-> <<>>, message |-> Null]
EvQr(qr) == [Ev("qr") EXCEPT !.qr = qr]
EvMsg(from, message) == [Ev("msg-received") EXCEPT !.from = from, !.message = message]

Replace(t, t2) == (tasks \ {t}) \cup {t2}
InFlight == Cardinality(tasks)

\* what a run of a handler leaves: the await it stops at ("done": returned),
\* the io.emit calls it made, whether it threw into the handler's catch
Ran(pc, emits, threw) == [pc |-> pc, emits |-> emits, threw |-> threw]

\* -------------------------------------------------------------------- Init
Init ==
    /\ sock = 0
    /\ nHandles = 0
    /\ listeners = {}
    /\ latestQr = Null
    /\ timers = {}
    /\ tasks = {[NewTask(1, "startBot", "auth", 0) EXCEPT !.origin = "boot"]}
    /\ nextId = 1
    /\ wa_sessions = [id \in {TENANT_ID, SESSION_ID} |-> Null]
    /\ wa_messages = <<>>
    /\ redisQr = [id \in {TENANT_ID, SESSION_ID} |-> Null]
    /\ stream = <<>>
    /\ emitted = <<>>
    /\ sendCalls = <<>>
    /\ received = 0
    /\ requests = 0
    /\ now = 0
    /\ redisQrEx = [id \in {TENANT_ID, SESSION_ID} |-> 0]
    /\ observers = {}
    /\ issue = NoIssue
    /\ last = Step("init", NoTask, TRUE, TRUE)

\* ----------------------------------------------------------------- startBot
\* await useMultiFileAuthState(AUTH_DIR) completes; savedState (never read) is
\* not modelled
StartBotAuthDone ==
    \E t \in tasks, ok \in BOOLEAN :
        /\ t.kind = "startBot" /\ t.pc = "auth"
        /\ LET t2 == [t EXCEPT !.pc = IF ok THEN "version" ELSE "done"] IN
            /\ tasks' = IF ok THEN Replace(t, t2) ELSE tasks \ {t}
            /\ last' = Step("StartBotAuthDone", t2, ok, TRUE)
        /\ UNCHANGED <<sock, nHandles, listeners, latestQr, timers, nextId, wa_sessions,
                       wa_messages, redisQr, stream, emitted, sendCalls, received, requests,
                       now, redisQrEx, observers, issue>>

\* a variant whose failure schedules another restart (a retry in the catch)
StartBotConstructRetrying ==
    \E t \in tasks, ok \in BOOLEAN :
        /\ t.kind = "startBot" /\ t.pc = "version"
        /\ LET t2 == [t EXCEPT !.pc = "done", !.h = IF ok THEN nHandles + 1 ELSE 0] IN
            /\ tasks' = tasks \ {t}
            /\ nHandles' = IF ok THEN nHandles + 1 ELSE nHandles
            /\ sock' = IF ok THEN nHandles + 1 ELSE sock
            /\ listeners' = IF ok THEN listeners \cup {nHandles + 1} ELSE listeners
            /\ timers' = IF ok THEN timers
                         ELSE timers \cup {[id |-> t.id, logoutSince |-> FALSE]}
            /\ last' = Step("StartBotConstruct", t2, ok, TRUE)
        /\ UNCHANGED <<latestQr, nextId, wa_sessions, wa_messages, redisQr,
                       stream, emitted, sendCalls, received, requests,
                       now, redisQrEx, observers, issue>>

\* await fetchLatestBaileysVersion() completes, then sock = makeWASocket(...) and
\* the three sock.ev.on(...) registrations; nothing is removed from older handles
StartBotConstruct ==
    \E t \in tasks, ok \in BOOLEAN :
        /\ t.kind = "startBot" /\ t.pc = "version"
        /\ LET t2 == [t EXCEPT !.pc = "done", !.h = IF ok THEN nHandles + 1 ELSE 0] IN
            /\ tasks' = tasks \ {t}
            /\ nHandles' = IF ok THEN nHandles + 1 ELSE nHandles
            /\ sock' = IF ok THEN nHandles + 1 ELSE sock
            /\ listeners' = IF ok THEN listeners \cup {nHandles + 1} ELSE listeners
            /\ last' = Step("StartBotConstruct", t2, ok, TRUE)
        /\ UNCHANGED <<latestQr, timers, nextId, wa_sessions, wa_messages, redisQr,
                       stream, emitted, sendCalls, received, requests,
                       now, redisQrEx, observers, issue>>

\* the setTimeout callback runs: startBot().catch(...)
TimerFire ==
    \E tm \in timers :
        /\ InFlight < MaxInFlight
        /\ timers' = timers \ {tm}
        /\ nextId' = nextId + 1
        /\ LET t2 == [NewTask(nextId + 1, "startBot", "auth", 0) EXCEPT
                          !.origin = "timer", !.afterLogout = tm.logoutSince] IN
            /\ tasks' = tasks \cup {t2}
            /\ last' = Step("TimerFire", t2, TRUE, TRUE)
        /\ UNCHANGED <<sock, nHandles, listeners, latestQr, wa_sessions, wa_messages,
                       redisQr, stream, emitted, sendCalls, received, requests,
                       now, redisQrEx, observers, issue>>

\* -------------------------------------------------------- connection.update
\* a variant that reconnects whatever the reason (as the first draft of the
\* handler did)
ShouldReconnectAlways(upd) == TRUE

\* lastDisconnect?.error?.output?.statusCode !== DisconnectReason.loggedOut
ShouldReconnect(upd) == upd.statusCode # LoggedOutCode

\* status: shouldReconnect ? 'reconnecting' : 'logged_out'
CloseStatus(upd) == IF ShouldReconnect(upd) THEN "reconnecting" ELSE "logged_out"

\* if (connection === 'close'): runs up to await supabase...upsert
ConnFromClose(upd) ==
    IF upd.connection = "close" THEN Ran("closeUpsert", <<>>, FALSE)
    ELSE Ran("done", <<>>, FALSE)

\* if (connection === 'open'): io.emit('connected'), up to await supabase...upsert
ConnFromOpen(upd, emitOk) ==
    IF upd.connection = "open"
    THEN IF emitOk THEN Ran("openUpsert", <<Ev("connected")>>, FALSE)
         ELSE Ran("done", <<>>, TRUE)
    ELSE ConnFromClose(upd)

\* if (qr): latestQr = qr (by the action), io.emit('qr', qr), up to await redis.set
ConnFromQr(upd, emitOk) ==
    IF ~Falsy(upd.qr)
    THEN IF emitOk THEN Ran("set", <<EvQr(upd.qr)>>, FALSE)
         ELSE Ran("done", <<>>, TRUE)
    ELSE ConnFromOpen(upd, emitOk)

\* whether io.emit can throw in this run (else the choice is fixed)
EmitChoice(emits) == IF emits THEN BOOLEAN ELSE {TRUE}

\* the client emits connection.update on a handle that has the handler registered
ConnectionUpdate(updates) ==
    \E h \in listeners, upd \in updates :
    \E emitOk \in EmitChoice(~Falsy(upd.qr) \/ upd.connection = "open") :
        /\ received < MaxEvents
        /\ InFlight < MaxInFlight
        /\ received' = received + 1
        /\ nextId' = nextId + 1
        /\ latestQr' = IF ~Falsy(upd.qr) THEN upd.qr ELSE latestQr
        /\ issue' = IF ~Falsy(upd.qr) THEN [n |-> issue.n + 1, at |-> now, revoked |-> FALSE]
                    ELSE issue
        /\ LET r == ConnFromQr(upd, emitOk)
               t2 == [NewTask(nextId + 1, "conn", r.pc, h) EXCEPT !.upd = upd] IN
            /\ emitted' = emitted \o r.emits
            /\ tasks' = IF r.pc = "done" THEN tasks ELSE tasks \cup {t2}
            /\ last' = Step("ConnectionUpdate", t2, TRUE, emitOk)
        /\ UNCHANGED <<sock, nHandles, listeners, timers, wa_sessions, wa_messages,
                       redisQr, stream, sendCalls, requests,
                       now, redisQrEx, observers>>

\* await redis.set(`wa:qr:${SESSION_ID}`, qr, { ex: 300 }) completes: the key
\* lives QrTtl seconds from now
ConnSetDone ==
    \E t \in tasks, ok \in BOOLEAN :
    \E emitOk \in EmitChoice(ok /\ t.upd.connection = "open") :
        /\ t.kind = "conn" /\ t.pc = "set"
        /\ redisQr' = IF ok THEN [redisQr EXCEPT ![SESSION_ID] = t.upd.qr] ELSE redisQr
        /\ redisQrEx' = IF ok THEN [redisQrEx EXCEPT ![SESSION_ID] = now + QrTtl]
                        ELSE redisQrEx
        /\ LET r == IF ok THEN ConnFromOpen(t.upd, emitOk) ELSE Ran("done", <<>>, TRUE)
               t2 == [t EXCEPT !.pc = r.pc] IN
            /\ emitted' = emitted \o r.emits
            /\ tasks' = IF r.pc = "done" THEN tasks \ {t} ELSE Replace(t, t2)
            /\ last' = Step("ConnSetDone", t2, ok, emitOk)
        /\ UNCHANGED <<sock, nHandles, listeners, latestQr, timers, nextId, wa_sessions,
                       wa_messages, stream, sendCalls, received, requests,
                       now, observers, issue>>

\* the upsert of status 'connected' completes (its result is not looked at),
\* then if (latestQr) io.emit('qr', latestQr)
ConnOpenUpsertDone ==
    \E t \in tasks, out \in WriteOutcomes :
    \E emitOk \in EmitChoice(Returned(out) /\ ~Falsy(latestQr)) :
        /\ t.kind = "conn" /\ t.pc = "openUpsert"
        /\ wa_sessions' = IF Wrote(out) THEN [wa_sessions EXCEPT ![TENANT_ID] = "connected"]
                          ELSE wa_sessions
        /\ LET r == IF ~Returned(out) \/ ~emitOk THEN Ran("done", <<>>, TRUE)
                    ELSE [ConnFromClose(t.upd) EXCEPT
                              !.emits = IF ~Falsy(latestQr) THEN <<EvQr(latestQr)>> ELSE <<>>]
               t2 == [t EXCEPT !.pc = r.pc] IN
            /\ emitted' = emitted \o r.emits
            /\ tasks' = IF r.pc = "done" THEN tasks \ {t} ELSE Replace(t, t2)
            /\ last' = StepWrite("ConnOpenUpsertDone", t2, out, emitOk)
        /\ UNCHANGED <<sock, nHandles, listeners, latestQr, timers, nextId, wa_messages,
                       redisQr, stream, sendCalls, received, requests,
                       now, redisQrEx, observers, issue>>

\* the pending restarts after this run: a reconnect close adds one
\* (setTimeout(() => startBot()..., 5000)); logoutSince records, for the timers
\* already pending, that status 'logged_out' has been stored since
TimersAfterClose(t, out) ==
    IF ~Returned(out) THEN timers
    ELSE IF ShouldReconnect(t.upd)
         THEN timers \cup {[id |-> t.id, logoutSince |-> FALSE]}
         ELSE IF Wrote(out) THEN {[tm EXCEPT !.logoutSince = TRUE] : tm \in timers}
         ELSE timers

\* the upsert of status 'reconnecting' / 'logged_out' completes (its result is
\* not looked at), then the restart is scheduled or the run goes on to await
\* redis.del
ConnCloseUpsertDone ==
    \E t \in tasks, out \in WriteOutcomes :
        /\ t.kind = "conn" /\ t.pc = "closeUpsert"
        /\ wa_sessions' = IF Wrote(out)
                          THEN [wa_sessions EXCEPT ![TENANT_ID] = CloseStatus(t.upd)]
                          ELSE wa_sessions
        /\ timers' = TimersAfterClose(t, out)
        /\ LET pc2 == IF Returned(out) /\ ~ShouldReconnect(t.upd) THEN "del" ELSE "done"
               t2 == [t EXCEPT !.pc = pc2] IN
            /\ tasks' = IF pc2 = "done" THEN tasks \ {t} ELSE Replace(t, t2)
            /\ last' = StepWrite("ConnCloseUpsertDone", t2, out, TRUE)
        /\ UNCHANGED <<sock, nHandles, listeners, latestQr, nextId, wa_messages, redisQr,
                       stream, emitted, sendCalls, received, requests,
                       now, redisQrEx, observers, issue>>

\* await redis.del(`wa:qr:${SESSION_ID}`) completes, then
\* io.emit('session_logged_out')
ConnDelDone ==
    \E t \in tasks, ok \in BOOLEAN :
    \E emitOk \in EmitChoice(ok) :
        /\ t.kind = "conn" /\ t.pc = "del"
        /\ redisQr' = IF ok THEN [redisQr EXCEPT ![SESSION_ID] = Null] ELSE redisQr
        /\ issue' = IF ok THEN [issue EXCEPT !.revoked = TRUE] ELSE issue
        /\ emitted' = IF ok /\ emitOk THEN Append(emitted, Ev("session_logged_out"))
                      ELSE emitted
        /\ tasks' = tasks \ {t}
        /\ last' = Step("ConnDelDone", [t EXCEPT !.pc = "done"], ok, emitOk)
        /\ UNCHANGED <<sock, nHandles, listeners, latestQr, timers, nextId, wa_sessions,
                       wa_messages, stream, sendCalls, received, requests,
                       now, redisQrEx, observers>>

\* --------------------------------------------------------------- creds.update
\* the client emits creds.update: the handler runs up to await saveCreds()
CredsUpdate ==
    \E h \in listeners :
        /\ received < MaxEvents
        /\ InFlight < MaxInFlight
        /\ received' = received + 1
        /\ nextId' = nextId + 1
        /\ LET t2 == NewTask(nextId + 1, "creds", "saveCreds", h) IN
            /\ tasks' = tasks \cup {t2}
            /\ last' = Step("CredsUpdate", t2, TRUE, TRUE)
        /\ UNCHANGED <<sock, nHandles, listeners, latestQr, timers, wa_sessions,
                       wa_messages, redisQr, stream, emitted, sendCalls, requests,
                       now, redisQrEx, observers, issue>>

\* await saveCreds() completes.  The argument of the upsert that follows reads
\* STORE_ID, which is declared nowhere: evaluating it throws a ReferenceError
\* before the upsert is called, so either way the run ends in the catch
CredsSaveDone ==
    \E t \in tasks, ok \in BOOLEAN :
        /\ t.kind = "creds" /\ t.pc = "saveCreds"
        /\ tasks' = tasks \ {t}
        /\ last' = Step("CredsSaveDone", [t EXCEPT !.pc = "done"], ok, TRUE)
        /\ UNCHANGED <<sock, nHandles, listeners, latestQr, timers, nextId, wa_sessions,
                       wa_messages, redisQr, stream, emitted, sendCalls, received, requests,
                       now, redisQrEx, observers, issue>>

\* ------------------------------------------------------------ messages.upsert
\* a || b || c || null
FirstTruthy(a, b, c) ==
    IF ~Falsy(a) THEN a ELSE IF ~Falsy(b) THEN b ELSE IF ~Falsy(c) THEN c ELSE Null

\* a variant that prefers the caption to the text bodies
TextOfCaptionFirst(message) ==
    FirstTruthy(message.caption, message.conversation, message.extendedText)

\* message.message?.conversation || ...extendedTextMessage?.text ||
\* ...imageMessage?.caption || null
TextOf(message) == FirstTruthy(message.conversation, message.extendedText, message.caption)

\* ...quotedMessage?.tenant_id || message?.key?.tenant_id || SESSION_ID
TenantOf(message) ==
    IF ~Falsy(message.quotedTenant) THEN message.quotedTenant
    ELSE IF ~Falsy(message.keyTenant) THEN message.keyTenant
    ELSE SESSION_ID

PayloadOf(message) ==
    [tenant_id |-> TenantOf(message),
     chat_id |-> message.remoteJid,
     from |-> IF message.participant # <<>> THEN message.participant ELSE message.remoteJid,
     text |-> TextOf(message),
     message_id |-> message.id,
     ts |-> message.ts]

\* a variant without the check of key.fromMe
MsgDroppedNoSelf(batch) ==
    \/ Len(batch) = 0
    \/ Falsy(TenantOf(batch[1]))

\* whether the handler returns before any side effect: no first message, or
\* key.fromMe, or no tenant id
MsgDropped(batch) ==
    \/ Len(batch) = 0
    \/ batch[1].fromMe
    \/ Falsy(TenantOf(batch[1]))

\* the client emits messages.upsert: the handler looks at m.messages[0] only and
\* runs up to await redis.xadd
MessagesUpsert(batches) ==
    \E h \in listeners, batch \in batches :
        /\ received < MaxEvents
        /\ InFlight < MaxInFlight
        /\ received' = received + 1
        /\ nextId' = nextId + 1
        /\ LET dropped == MsgDropped(batch)
               t2 == [NewTask(nextId + 1, "msg", IF dropped THEN "done" ELSE "xadd", h) EXCEPT
                          !.batch = batch,
                          !.payload = IF dropped THEN NoPayload ELSE PayloadOf(batch[1])] IN
            /\ tasks' = IF dropped THEN tasks ELSE tasks \cup {t2}
            /\ last' = Step("MessagesUpsert", t2, TRUE, TRUE)
        /\ UNCHANGED <<sock, nHandles, listeners, latestQr, timers, wa_sessions,
                       wa_messages, redisQr, stream, emitted, sendCalls, requests,
                       now, redisQrEx, observers, issue>>

\* await redis.xadd('wa.inbound', '*', 'payload', JSON.stringify(payload)) completes
MsgXaddDone ==
    \E t \in tasks, ok \in BOOLEAN :
        /\ t.kind = "msg" /\ t.pc = "xadd"
        /\ stream' = IF ok THEN Append(stream, t.payload) ELSE stream
        /\ LET t2 == [t EXCEPT !.pc = IF ok THEN "insert" ELSE "done"] IN
            /\ tasks' = IF ok THEN Replace(t, t2) ELSE tasks \ {t}
            /\ last' = Step("MsgXaddDone", t2, ok, TRUE)
        /\ UNCHANGED <<sock, nHandles, listeners, latestQr, timers, nextId, wa_sessions,
                       wa_messages, redisQr, emitted, sendCalls, received, requests,
                       now, redisQrEx, observers, issue>>

\* the row of an inbound message: of the two store_id keys of the object
\* literal the later one (tenantId) stands
InboundRow(payload) ==
    [store_id |-> payload.tenant_id, chat_id |-> payload.chat_id,
     direction |-> "inbound", payload |-> payload]

\* await supabase.from('wa_messages').insert(...) completes (its result is not
\* looked at), then
\* io.emit('msg-received', { from: payload.chat_id, message: payload.text })
MsgInsertDone ==
    \E t \in tasks, out \in WriteOutcomes :
    \E emitOk \in EmitChoice(Returned(out)) :
        /\ t.kind = "msg" /\ t.pc = "insert"
        /\ wa_messages' = IF Wrote(out) THEN Append(wa_messages, InboundRow(t.payload))
                          ELSE wa_messages
        /\ emitted' = IF Returned(out) /\ emitOk
                      THEN Append(emitted, EvMsg(t.payload.chat_id, t.payload.text))
                      ELSE emitted
        /\ tasks' = tasks \ {t}
        /\ last' = StepWrite("MsgInsertDone", [t EXCEPT !.pc = "done"], out, emitOk)
        /\ UNCHANGED <<sock, nHandles, listeners, latestQr, timers, nextId, wa_sessions,
                       redisQr, stream, sendCalls, received, requests,
                       now, redisQrEx, observers, issue>>

\* ------------------------------------------------------------------ POST /send
IsDigit(c) == c \in {"0", "1", "2", "3", "4", "5", "6", "7", "8", "9"}

\* a variant that uses the recipient as given (as the drafts of /send did)
DigitsOfRaw(to) == to

\* String(to).replace(/\D/g, '')
DigitsOf(to) == SelectSeq(to, IsDigit)

\* /^\d{6,20}$/.test(digits)
ValidPhone(digits) ==
    /\ Len(digits) >= MinPhoneDigits
    /\ Len(digits) <= MaxPhoneDigits
    /\ \A i \in 1..Len(digits) : IsDigit(digits[i])

\* `${digits}@s.whatsapp.net`
JidOf(digits) == digits \o Suffix

\* a variant that only requires the header to be present
AuthorizedAnyKey(key) == ~Falsy(key)

\* !(!apiKey || apiKey !== process.env.API_KEY)
Authorized(key) == ~Falsy(key) /\ key = API_KEY

\* a variant without the length limit
BadBodyNoLimit(req) ==
    \/ ~req.hasTo \/ req.to = <<>>
    \/ ~req.hasMessage \/ req.length = 0

\* !to || !message || message.length > 1000
BadBody(req) ==
    \/ ~req.hasTo \/ req.to = <<>>
    \/ ~req.hasMessage \/ req.length = 0
    \/ req.length > MaxMessageLength

Resp(status, body) == [status |-> status, body |-> body]

\* the response the handler returns before calling sock.sendMessage, NoResp when
\* it goes on to the call; s is the value of sock
SendReject(req, s) ==
    IF ~Authorized(req.key) THEN Resp(401, "Unauthorized")
    ELSE IF BadBody(req)
    THEN Resp(400, "Missing to, message, or message exceeds 1000 characters")
    ELSE IF ~ValidPhone(DigitsOf(req.to)) THEN Resp(400, "Invalid phone format")
    ELSE IF s = 0 THEN Resp(500, "WhatsApp not connected")
    ELSE NoResp

\* a request arrives: the handler runs up to await sock.sendMessage(jid, ...)
SendRequest(reqs) ==
    \E req \in reqs :
        /\ received < MaxEvents
        /\ requests < MaxRequests
        /\ InFlight < MaxInFlight
        /\ received' = received + 1
        /\ requests' = requests + 1
        /\ nextId' = nextId + 1
        /\ LET rej == SendReject(req, sock)
               called == rej = NoResp
               jid == IF called THEN JidOf(DigitsOf(req.to)) ELSE <<>>
               t2 == [NewTask(nextId + 1, "send", IF called THEN "send" ELSE "done", sock)
                         EXCEPT !.req = req, !.jid = jid, !.resp = rej] IN
            /\ sendCalls' = IF called
                            THEN Append(sendCalls, [h |-> sock, jid |-> jid, length |-> req.length])
                            ELSE sendCalls
            /\ tasks' = IF called THEN tasks \cup {t2} ELSE tasks
            /\ last' = Step("SendRequest", t2, TRUE, TRUE)
        /\ UNCHANGED <<sock, nHandles, listeners, latestQr, timers, wa_sessions,
                       wa_messages, redisQr, stream, emitted,
                       now, redisQrEx, observers, issue>>

\* the response of the catch: 500 { error: String(err?.message || err) }
SendCatch == Resp(500, "error")

\* await sock.sendMessage(...) completes
SendDone ==
    \E t \in tasks, ok \in BOOLEAN :
        /\ t.kind = "send" /\ t.pc = "send"
        /\ LET t2 == [t EXCEPT !.pc = IF ok THEN "insert" ELSE "done", !.sendOk = ok,
                               !.resp = IF ok THEN NoResp ELSE SendCatch] IN
            /\ tasks' = IF ok THEN Replace(t, t2) ELSE tasks \ {t}
            /\ last' = Step("SendDone", t2, ok, TRUE)
        /\ UNCHANGED <<sock, nHandles, listeners, latestQr, timers, nextId, wa_sessions,
                       wa_messages, redisQr, stream, emitted, sendCalls, received, requests,
                       now, redisQrEx, observers, issue>>

OutboundRow(t) ==
    [store_id |-> TENANT_ID, chat_id |-> t.jid, direction |-> "outbound",
     payload |-> [to |-> t.jid, length |-> t.req.length]]

\* the response once the audit insert has completed: ok tells that it returned
\* (with the row written or with an error in its result)
SendInsertResp(ok) == IF ok THEN Resp(200, "sent") ELSE SendCatch

\* await supabase.from('wa_messages').insert(...) completes (its result is not
\* looked at), then the response
SendInsertDone ==
    \E t \in tasks, out \in WriteOutcomes :
        /\ t.kind = "send" /\ t.pc = "insert"
        /\ wa_messages' = IF Wrote(out) THEN Append(wa_messages, OutboundRow(t))
                          ELSE wa_messages
        /\ tasks' = tasks \ {t}
        /\ last' = StepWrite("SendInsertDone",
                             [t EXCEPT !.pc = "done", !.resp = SendInsertResp(Returned(out))],
                             out, TRUE)
        /\ UNCHANGED <<sock, nHandles, listeners, latestQr, timers, nextId, wa_sessions,
                       redisQr, stream, emitted, sendCalls, received, requests,
                       now, redisQrEx, observers, issue>>

\* ------------------------------------------------------ io.on('connection')
\* a variant that replays nothing to a client that connects
ReplayNone(qr) == Null

\* if (latestQr) socket.emit('qr', latestQr): the code the connection sends to
\* the client, Null when it sends none
ReplayOf(qr) == IF ~Falsy(qr) THEN qr ELSE Null

\* a socket.io client connects.  socket.emit goes to this client only; from now
\* on the client also gets every io.emit (since: the io.emit calls made before)
ObserverConnect ==
    /\ Cardinality(observers) < MaxObservers
    /\ observers' = observers \cup
            {[id |-> Cardinality(observers) + 1, since |-> Len(emitted),
              replay |-> ReplayOf(latestQr), issue |-> issue]}
    /\ last' = Step("ObserverConnect", NoTask, TRUE, TRUE)
    /\ UNCHANGED <<sock, nHandles, listeners, latestQr, timers, tasks, nextId,
                   wa_sessions, wa_messages, redisQr, stream, emitted, sendCalls,
                   received, requests, now, redisQrEx, issue>>

\* the events client o has been sent so far: the replay of its connection, then
\* the io.emit calls made since
Delivered(o) ==
    (IF o.replay = Null THEN <<>> ELSE <<EvQr(o.replay)>>)
        \o SubSeq(emitted, o.since + 1, Len(emitted))

\* ----------------------------------------------------- GET /session/:id/qr
\* time passes
Tick ==
    /\ now < MaxTime
    /\ now' = now + TickSeconds
    /\ last' = Step("Tick", NoTask, TRUE, TRUE)
    /\ UNCHANGED <<sock, nHandles, listeners, latestQr, timers, tasks, nextId,
                   wa_sessions, wa_messages, redisQr, stream, emitted, sendCalls,
                   received, requests, redisQrEx, observers, issue>>

\* redis.get(`wa:qr:${id}`): the value of the key, Null once it has expired
RedisGet(id) == IF now < redisQrEx[id] THEN redisQr[id] ELSE Null

\* a request arrives: the handler runs up to await redis.get
QrRequest(ids) ==
    \E id \in ids :
        /\ received < MaxEvents
        /\ InFlight < MaxInFlight
        /\ received' = received + 1
        /\ nextId' = nextId + 1
        /\ LET t2 == [NewTask(nextId + 1, "qr", "get", sock) EXCEPT !.param = id] IN
            /\ tasks' = tasks \cup {t2}
            /\ last' = Step("QrRequest", t2, TRUE, TRUE)
        /\ UNCHANGED <<sock, nHandles, listeners, latestQr, timers, wa_sessions,
                       wa_messages, redisQr, stream, emitted, sendCalls, requests, now,
                       redisQrEx, observers, issue>>

\* the response to GET /session/:id/qr once redis.get has returned qr (ok) or
\* thrown
QrResp(ok, qr) ==
    IF ~ok THEN Resp(500, "Server error")
    ELSE IF Falsy(qr) THEN Resp(404, "QR not found or expired")
    ELSE Resp(200, qr)

\* await redis.get(`wa:qr:${id}`) completes and the handler responds
QrGetDone ==
    \E t \in tasks, ok \in BOOLEAN :
        /\ t.kind = "qr" /\ t.pc = "get"
        /\ LET t2 == [t EXCEPT !.pc = "done", !.resp = QrResp(ok, RedisGet(t.param))] IN
            /\ tasks' = tasks \ {t}
            /\ last' = Step("QrGetDone", t2, ok, TRUE)
        /\ UNCHANGED <<sock, nHandles, listeners, latestQr, timers, nextId, wa_sessions,
                       wa_messages, redisQr, stream, emitted, sendCalls, received,
                       requests, now, redisQrEx, observers, issue>>

\* ------------------------------------------------- GET /session/:id/status
\* a request arrives: the handler runs up to await supabase...select(...).single()
StatusRequest(ids) ==
    \E id \in ids :
        /\ received < MaxEvents
        /\ InFlight < MaxInFlight
        /\ received' = received + 1
        /\ nextId' = nextId + 1
        /\ LET t2 == [NewTask(nextId + 1, "status", "select", sock) EXCEPT !.param = id] IN
            /\ tasks' = tasks \cup {t2}
            /\ last' = Step("StatusRequest", t2, TRUE, TRUE)
        /\ UNCHANGED <<sock, nHandles, listeners, latestQr, timers, wa_sessions,
                       wa_messages, redisQr, stream, emitted, sendCalls, requests, now,
                       redisQrEx, observers, issue>>

\* how the select ends: it returns { data } (the row, or null when there is
\* none), it returns { data: null, error }, or it throws
SelectOutcomes == {"data", "error", "throw"}

\* the response to GET /session/:id/status; row is the status of the stored row
\* (Null: no row)
StatusResp(out, row) ==
    IF out = "throw" THEN Resp(500, "Server error")
    ELSE IF out = "error" \/ row = Null THEN Resp(200, "unknown")
    ELSE Resp(200, row)

\* the select completes and the handler responds
StatusSelectDone ==
    \E t \in tasks, out \in SelectOutcomes :
        /\ t.kind = "status" /\ t.pc = "select"
        /\ LET t2 == [t EXCEPT !.pc = "done",
                                !.resp = StatusResp(out, wa_sessions[t.param])] IN
            /\ tasks' = tasks \ {t}
            /\ last' = Step("StatusSelectDone", t2, out = "data", TRUE)
        /\ UNCHANGED <<sock, nHandles, listeners, latestQr, timers, nextId, wa_sessions,
                       wa_messages, redisQr, stream, emitted, sendCalls, received,
                       requests, now, redisQrEx, observers, issue>>

\* ---------------------------------------------------------------- the inputs
Upd(connection, statusCode, qr) ==
    [connection |-> connection, statusCode |-> statusCode, qr |-> qr]

\* updates the client may emit: a pairing code, open, close with the logout
\* reason, with another reason (515: restart required) and without lastDisconnect,
\* a pairing code together with open, and an update without either
ConnUpdates ==
    {Upd(Null, 0, "qr1"), Upd(Null, 0, "qr2"), Upd("open", 0, Null), Upd("open", 0, "qr1"),
     Upd("close", LoggedOutCode, Null), Upd("close", 515, Null), Upd("close", 0, Null),
     Upd("connecting", 0, Null)}

DigitChars == <<"0", "1", "2", "3", "4", "5", "6", "7", "8", "9">>
\* the string of the first n digits of 1234567890123...
Dig(n) == [i \in 1..n |-> DigitChars[(i % 10) + 1]]

Chat1 == Dig(7) \o Suffix
Group1 == <<"g", "1", "@", "g", ".", "u", "s">>

Msg(fromMe, conversation, extendedText, caption) ==
    [fromMe |-> fromMe, conversation |-> conversation, extendedText |-> extendedText,
     caption |-> caption, quotedTenant |-> Null, keyTenant |-> Null,
     remoteJid |-> Chat1, participant |-> <<>>, id |-> "m1", ts |-> 1]

Batches ==
    {<<>>,
     <<Msg(FALSE, "hi", Null, Null)>>,
     <<Msg(TRUE, "hi", Null, Null)>>,
     <<Msg(FALSE, Null, Null, Null)>>,
     <<[Msg(FALSE, "", "quoted", "cap") EXCEPT !.remoteJid = Group1, !.participant = Chat1,
                                               !.keyTenant = "tenantK", !.id = "m2"]>>,
     <<Msg(FALSE, Null, "", "photo"), [Msg(FALSE, "two", Null, Null) EXCEPT !.id = "m2"]>>}

Req(key, hasTo, to, hasMessage, length) ==
    [key |-> key, hasTo |-> hasTo, to |-> to, hasMessage |-> hasMessage, length |-> length]

Keys == {Null, "wrong", API_KEY}

\* recipients: 5, 6, 20 and 21 digits, digits with other characters between and
\* around them, no digit at all, the empty string
Recipients ==
    {Dig(5), Dig(6), Dig(20), Dig(21),
     <<"+">> \o Dig(6),
     <<"+", "2", "3", "4", " ", "8", "0", "1", "-", "2", "3", "4">>,
     <<"1", "2", "x", "3", "4">>,
     <<"(">> \o Dig(10) \o <<")">> \o Dig(10),
     <<"a", "b", "c">>,
     <<>>}

Lengths == {0, 1, MaxMessageLength, MaxMessageLength + 1}

Requests ==
    {Req(k, TRUE, to, TRUE, n) : k \in Keys, to \in Recipients, n \in Lengths}
    \cup {Req(k, FALSE, <<>>, TRUE, 1) : k \in Keys}
    \cup {Req(k, TRUE, Dig(6), FALSE, 0) : k \in Keys}

\* ------------------------------------------------------ the specifications
\* the session lifecycle: client construction, the lifecycle events of every
\* handle constructed, the restart timer
Next ==
    \/ StartBotAuthDone
    \/ StartBotConstruct
    \/ TimerFire
    \/ ConnectionUpdate(ConnUpdates)
    \/ ConnSetDone
    \/ ConnOpenUpsertDone
    \/ ConnCloseUpsertDone
    \/ ConnDelDone
    \/ CredsUpdate
    \/ CredsSaveDone

Spec == Init /\ [][Next]_vars

\* POST /send with every request of Requests, before and after the client is
\* constructed
NextSend ==
    \/ StartBotAuthDone
    \/ StartBotConstruct
    \/ SendRequest(Requests)
    \/ SendDone
    \/ SendInsertDone

SpecSend == Init /\ [][NextSend]_vars

\* one well-formed authorised request
OneRequest == {Req(API_KEY, TRUE, Dig(6), TRUE, 1)}

CloseUpdates == {Upd("close", LoggedOutCode, Null), Upd("close", 515, Null)}

\* POST /send while the client closes, restarts and logs out
NextSendLifecycle ==
    \/ StartBotAuthDone
    \/ StartBotConstruct
    \/ TimerFire
    \/ ConnectionUpdate(CloseUpdates)
    \/ ConnCloseUpsertDone
    \/ ConnDelDone
    \/ SendRequest(OneRequest)
    \/ SendDone
    \/ SendInsertDone

SpecSendLifecycle == Init /\ [][NextSendLifecycle]_vars

\* inbound messages on the handle constructed
NextInbound ==
    \/ StartBotAuthDone
    \/ StartBotConstruct
    \/ MessagesUpsert(Batches)
    \/ MsgXaddDone
    \/ MsgInsertDone

SpecInbound == Init /\ [][NextInbound]_vars

\* ====================================================================== claims
\* the pairing lifecycle seen by socket.io clients
PairingUpdates == {Upd(Null, 0, "qr1"), Upd(Null, 0, "qr2"), Upd("open", 0, Null)}

NextObservers ==
    \/ StartBotAuthDone
    \/ StartBotConstruct
    \/ ConnectionUpdate(PairingUpdates)
    \/ ConnSetDone
    \/ ConnOpenUpsertDone
    \/ ObserverConnect

SpecObservers == Init /\ [][NextObservers]_vars

\* the pairing code in the cache, in memory and on the channel, over time
SessionIds == {TENANT_ID, SESSION_ID}
PairingLogoutUpdates ==
    {Upd(Null, 0, "qr1"), Upd("open", 0, Null), Upd("close", LoggedOutCode, Null)}

NextPairing ==
    \/ StartBotAuthDone
    \/ StartBotConstruct
    \/ ConnectionUpdate(PairingLogoutUpdates)
    \/ ConnSetDone
    \/ ConnOpenUpsertDone
    \/ ConnCloseUpsertDone
    \/ ConnDelDone
    \/ ObserverConnect
    \/ QrRequest(SessionIds)
    \/ QrGetDone
    \/ Tick

SpecPairing == Init /\ [][NextPairing]_vars

\* the session row, written by the handlers and read by GET /session/:id/status
StatusUpdates == {Upd("open", 0, Null), Upd("close", LoggedOutCode, Null)}

NextStatus ==
    \/ StartBotAuthDone
    \/ StartBotConstruct
    \/ CredsUpdate
    \/ CredsSaveDone
    \/ ConnectionUpdate(StatusUpdates)
    \/ ConnOpenUpsertDone
    \/ ConnCloseUpsertDone
    \/ ConnDelDone
    \/ StatusRequest(SessionIds)
    \/ StatusSelectDone

SpecStatus == Init /\ [][NextStatus]_vars

LastOf(seq) == seq[Len(seq)]
Status == wa_sessions[TENANT_ID]
IsClose(t) == t.kind = "conn" /\ t.upd.connection = "close"
IsLogoutClose(t) == IsClose(t) /\ t.upd.statusCode = LoggedOutCode

\* C1: a close with a reason other than logout stores status 'reconnecting' and
\* schedules the restart, and a restart that was pending when a logout close
\* stored 'logged_out' is suppressed: its timer starts no startBot and no client
\* is constructed from it.
C1_RestartSuppressedByLogout ==
    /\ (last.step = "ConnCloseUpsertDone" /\ last.wrote /\ IsClose(last.t) /\ ~IsLogoutClose(last.t)
            => Status = "reconnecting" /\ \E tm \in timers : tm.id = last.t.id)
    /\ (last.step = "TimerFire" => ~last.t.afterLogout)
    /\ (last.step = "StartBotConstruct" /\ last.ok => ~last.t.afterLogout)

\* C2: only the current handle has its event subscriptions active, and every
\* client event that is processed comes from the current handle.
C2_OnlyCurrentHandleSubscribed ==
    /\ listeners \subseteq {sock}
    /\ (last.step \in {"ConnectionUpdate", "CredsUpdate", "MessagesUpsert"} => last.t.h = sock)

\* C3: the handler of a close with the logout reason goes on to the status write,
\* which stores 'logged_out'; it then deletes the cached pairing code and emits
\* 'session_logged_out' (each call returning, the write without error), and at
\* no step does it schedule a restart.
C3_LogoutClose ==
    IsLogoutClose(last.t) =>
        /\ \A tm \in timers : tm.id # last.t.id
        /\ (last.step = "ConnectionUpdate" => last.t.pc = "closeUpsert")
        /\ (last.step = "ConnCloseUpsertDone" /\ last.ok => last.t.pc = "del")
        /\ (last.step = "ConnCloseUpsertDone" /\ last.wrote => Status = "logged_out")
        /\ (last.step = "ConnDelDone" /\ last.ok
                => /\ redisQr[SESSION_ID] = Null
                   /\ last.emitOk => /\ emitted # <<>>
                                     /\ LastOf(emitted) = Ev("session_logged_out"))

\* C3 witness: a logout close has been handled to its end after a pairing code
\* had been issued
C3_Witness ==
    /\ IsLogoutClose(last.t) /\ last.step = "ConnDelDone" /\ last.ok /\ last.emitOk
    /\ latestQr # Null /\ redisQr[SESSION_ID] = Null
    /\ Status = "logged_out"
    /\ timers = {}

\* C4: once the stored status is 'logged_out', no step changes it and no step
\* constructs a client.
C4_LoggedOutTerminal ==
    [][Status = "logged_out" => Status' = "logged_out" /\ nHandles' = nHandles]_vars

\* C5: when one of the three side effects of an inbound message fails, the other
\* two have been performed by the time the handler ends.
InStream(p) == \E i \in 1..Len(stream) : stream[i] = p
InAudit(p) ==
    \E i \in 1..Len(wa_messages) :
        wa_messages[i].direction = "inbound" /\ wa_messages[i].payload = p
Pushed(p) == \E i \in 1..Len(emitted) : emitted[i] = EvMsg(p.chat_id, p.text)

C5_IndependentSideEffects ==
    (last.t.kind = "msg" /\ last.t.pc = "done" /\ last.step # "MessagesUpsert") =>
        /\ (last.step = "MsgXaddDone" /\ ~last.ok
                => InAudit(last.t.payload) /\ Pushed(last.t.payload))
        /\ (last.step = "MsgInsertDone" /\ ~last.wrote
                => InStream(last.t.payload) /\ Pushed(last.t.payload))
        /\ (last.step = "MsgInsertDone" /\ last.wrote /\ ~last.emitOk
                => InStream(last.t.payload) /\ InAudit(last.t.payload))

\* C6: a finished /send request is answered {status:'sent'} exactly when its
\* sock.sendMessage call returned without error.
C6_SentIffSendReturned ==
    (last.t.kind = "send" /\ last.t.pc = "done") =>
        (last.t.resp = [status |-> 200, body |-> "sent"] <=> last.t.sendOk)

\* C7: a request that arrives while no client is connected (no handle yet, or
\* stored status 'reconnecting' or 'logged_out') is rejected and
\* sock.sendMessage is not called.
C7_RejectedWhenNotConnected ==
    (last.step = "SendRequest" /\ (sock = 0 \/ Status \in {"reconnecting", "logged_out"}))
        => last.t.pc = "done" /\ last.t.resp.status >= 400

\* C8: a request whose credential is not the configured one is answered 401,
\* whatever its body and the state, and the step calls no sock.sendMessage,
\* writes no audit row and leaves nothing in flight.
C8_UnauthorizedRejectedFirst ==
    [][(last'.step = "SendRequest" /\ last'.t.req.key # API_KEY)
          => /\ last'.t.resp = [status |-> 401, body |-> "Unauthorized"]
             /\ last'.t.pc = "done"
             /\ sendCalls' = sendCalls
             /\ wa_messages' = wa_messages
             /\ tasks' = tasks]_vars

\* C8 witness: a wrong credential with a fully valid body and a client handle
C8_Witness ==
    /\ last.step = "SendRequest" /\ last.t.req.key = "wrong"
    /\ last.t.req.hasTo /\ last.t.req.to = Dig(6)
    /\ last.t.req.hasMessage /\ last.t.req.length = 1
    /\ sock # 0
    /\ last.t.resp.status = 401

\* the digits of a string, in order
RECURSIVE OnlyDigits(_)
OnlyDigits(str) ==
    IF str = <<>> THEN <<>>
    ELSE (IF Head(str) \in {"0", "1", "2", "3", "4", "5", "6", "7", "8", "9"}
          THEN <<Head(str)>> ELSE <<>>) \o OnlyDigits(Tail(str))

\* the chat id the spec gives a recipient
ChatIdOf(to) == OnlyDigits(to) \o <<"@", "s", ".", "w", "h", "a", "t", "s", "a", "p", "p", ".", "n", "e", "t">>

\* a request of C9: the right credential, a recipient of 6 to 20 digits once
\* stripped, a message of 1 to 1000 characters
WellFormed(req) ==
    /\ req.key = API_KEY
    /\ req.hasTo /\ Len(OnlyDigits(req.to)) \in 6..20
    /\ req.hasMessage /\ req.length \in 1..1000

\* C9: a well-formed request received while the controller holds a handle calls
\* sock.sendMessage once, with the stripped digits followed by '@s.whatsapp.net';
\* when that call and the audit insert return, the answer is {status:'sent'}, and
\* when the insert has written, exactly one outbound row has been added, with
\* that chat id; no other step of the request writes a row.
C9_ValidSendOneRecord ==
    [][(last'.t.kind = "send" /\ WellFormed(last'.t.req) /\ last'.t.h # 0) =>
          /\ last'.step = "SendRequest" =>
                /\ last'.t.pc = "send"
                /\ sendCalls' = Append(sendCalls, [h |-> sock, jid |-> ChatIdOf(last'.t.req.to),
                                                   length |-> last'.t.req.length])
                /\ wa_messages' = wa_messages
          /\ last'.step = "SendDone" =>
                /\ sendCalls' = sendCalls /\ wa_messages' = wa_messages
                /\ last'.ok => last'.t.pc = "insert"
          /\ last'.step = "SendInsertDone" =>
                /\ sendCalls' = sendCalls
                /\ last'.ok => last'.t.resp = [status |-> 200, body |-> "sent"]
                /\ last'.wrote =>
                      /\ Len(wa_messages') = Len(wa_messages) + 1
                      /\ SubSeq(wa_messages', 1, Len(wa_messages)) = wa_messages
                      /\ LastOf(wa_messages').direction = "outbound"
                      /\ LastOf(wa_messages').chat_id = ChatIdOf(last'.t.req.to)
                /\ ~last'.wrote => wa_messages' = wa_messages]_vars

\* C9 witness: '+234 801-234' has been sent and recorded as
\* 234801234@s.whatsapp.net
C9_Witness ==
    /\ last.step = "SendInsertDone" /\ last.wrote
    /\ last.t.req.to = <<"+", "2", "3", "4", " ", "8", "0", "1", "-", "2", "3", "4">>
    /\ last.t.resp.body = "sent"
    /\ Len(wa_messages) = 1
    /\ wa_messages[1].chat_id = <<"2", "3", "4", "8", "0", "1", "2", "3", "4", "@", "s", ".",
                                  "w", "h", "a", "t", "s", "a", "p", "p", ".", "n", "e", "t">>

\* C10: a request whose message is longer than 1000 characters is answered with
\* a 4xx status (400 when the credential is right), whatever the recipient and
\* whether or not there is a handle; the step calls no sock.sendMessage, writes no
\* audit row and leaves nothing in flight.
C10_OversizedRejected ==
    [][(last'.step = "SendRequest" /\ last'.t.req.hasMessage /\ last'.t.req.length > 1000)
          => /\ last'.t.resp.status \in 400..499
             /\ last'.t.req.key = API_KEY => last'.t.resp.status = 400
             /\ last'.t.pc = "done"
             /\ sendCalls' = sendCalls
             /\ wa_messages' = wa_messages
             /\ tasks' = tasks]_vars

\* C10 witness: 1001 characters to a valid recipient with the right credential
\* and a handle
C10_Witness ==
    /\ last.step = "SendRequest" /\ last.t.req.key = API_KEY
    /\ last.t.req.hasMessage /\ last.t.req.length = 1001
    /\ last.t.req.hasTo /\ last.t.req.to = Dig(20)
    /\ sock # 0
    /\ last.t.resp.status = 400

\* the number of 'qr' events in a sequence of events
QrCount(evs) == Len(SelectSeq(evs, LAMBDA e : e.ev = "qr"))

\* C11 (as stated): a client that connected after a pairing code was issued has
\* been sent that code exactly once, as long as the client has issued no new code
\* since: the replay of the connection, and no later delivery of it
C11_ReplayedExactlyOnce ==
    \A o \in observers :
        o.issue.n > 0 /\ issue.n = o.issue.n =>
            /\ o.replay = latestQr
            /\ QrCount(Delivered(o)) = 1

\* C11 (amended): the connection sends the client the latest code, once and to
\* this client only; while no new code is issued the client is sent the code
\* again only by the re-push of an 'open' update, once per update
C11_ReplayedOnConnect ==
    [][/\ last'.step = "ObserverConnect" =>
            /\ emitted' = emitted
            /\ \E o \in observers' \ observers :
                /\ observers' = observers \cup {o}
                /\ o.replay = IF issue.n > 0 THEN latestQr ELSE Null
                /\ QrCount(Delivered(o)') = IF issue.n > 0 THEN 1 ELSE 0
       /\ \A o \in observers :
            o.issue.n > 0 /\ issue'.n = o.issue.n
                /\ QrCount(Delivered(o)') # QrCount(Delivered(o)) =>
                    /\ last'.step = "ConnOpenUpsertDone"
                    /\ last'.t.upd.connection = "open"
                    /\ emitted' = Append(emitted, EvQr(o.replay))]_vars

\* a client was replayed a code and then sent the same code again by an 'open'
\* update, no code having been issued in between
C11_Witness ==
    \E o \in observers :
        /\ o.issue.n > 0 /\ issue.n = o.issue.n
        /\ QrCount(Delivered(o)) = 2
        /\ last.step = "ConnOpenUpsertDone"

\* C12: no pairing code older than its TTL is returned or delivered: the client
\* that connects is replayed none, the re-push of an 'open' update carries none,
\* and GET /session/:id/qr returns no code whose key was set QrTtl seconds ago
\* or more
C12_NoStaleCode ==
    [][/\ last'.step = "ObserverConnect" =>
            \A o \in observers' \ observers :
                o.replay # Null => now - issue.at <= QrTtl
       /\ last'.step = "ConnOpenUpsertDone" /\ QrCount(emitted') # QrCount(emitted) =>
            now - issue.at <= QrTtl
       /\ last'.step = "QrGetDone" /\ last'.t.resp.status = 200 =>
            now - (redisQrEx[last'.t.param] - QrTtl) < QrTtl]_vars

\* C18: once a logout close has been handled (its redis.del has returned) and
\* until the client issues a new code, the session has no pairing code: a client
\* that connects is replayed none and GET /session/<SESSION_ID>/qr answers 404
C18_NoCodeAfterLogout ==
    [][issue.revoked =>
        /\ last'.step = "ObserverConnect" =>
                \A o \in observers' \ observers : o.replay = Null
        /\ last'.step = "QrGetDone" /\ last'.ok /\ last'.t.param = SESSION_ID =>
                last'.t.resp.status = 404]_vars

\* C13: a messages.upsert whose message has key.fromMe adds no audit record, no
\* stream entry and no notification, starts no run that would, and leaves the
\* session status, the pairing cache, latestQr and sock as they were
C13_SelfMessageNoEffect ==
    [][last'.step = "MessagesUpsert" /\ Len(last'.t.batch) > 0
            /\ last'.t.batch[1].fromMe =>
        /\ wa_messages' = wa_messages /\ stream' = stream /\ emitted' = emitted
        /\ tasks' = tasks
        /\ wa_sessions' = wa_sessions /\ redisQr' = redisQr /\ redisQrEx' = redisQrEx
        /\ latestQr' = latestQr /\ sock' = sock]_vars

\* a self-originated message has come after an inbound one was recorded, and
\* nothing is in flight
C13_Witness ==
    /\ last.step = "MessagesUpsert"
    /\ Len(last.t.batch) > 0 /\ last.t.batch[1].fromMe
    /\ Len(wa_messages) = 1 /\ Len(stream) = 1 /\ Len(emitted) = 1
    /\ tasks = {}

\* the number of entries of a sequence that f maps to p
CountOf(seq, f(_), p) == Len(SelectSeq(seq, LAMBDA x : f(x) = p))
RowPayload(row) == row.payload
EntryPayload(entry) == entry

\* C14: when the handler of a messages.upsert has returned with no dependency
\* having failed, every message of the signal that is not self-originated has
\* an audit record and a stream entry with its payload (exactly one each when
\* the same message was not delivered before)
C14_EveryMessageRecorded ==
    [][last'.step = "MsgInsertDone" /\ last'.wrote /\ last'.emitOk =>
        \A i \in 1..Len(last'.t.batch) :
            ~last'.t.batch[i].fromMe =>
                LET p == PayloadOf(last'.t.batch[i]) IN
                    /\ CountOf(wa_messages', RowPayload, p) >= 1
                    /\ CountOf(stream', EntryPayload, p) >= 1
                    /\ CountOf(wa_messages, RowPayload, p) = 0 =>
                            CountOf(wa_messages', RowPayload, p) = 1
                    /\ CountOf(stream, EntryPayload, p) = 0 =>
                            CountOf(stream', EntryPayload, p) = 1]_vars

\* C15: updates take effect in the order received.  When the status write of an
\* 'open' update completes and no connection.update run is left in flight, the
\* last update received (the run that got the last id) is not a close that came
\* after this open and has already written 'reconnecting' and scheduled its
\* restart (the timer carries the id of the close's run): else the stored status
\* ends as 'connected' although the last update was the close
C15_LastEventDecides ==
    [][last'.step = "ConnOpenUpsertDone" /\ last'.wrote
            /\ (\A t \in tasks' : t.kind # "conn") =>
        /\ Status' = "connected"
        /\ \A tm \in timers' : tm.id = nextId' => tm.id < last'.t.id]_vars

\* C16: a status write that fails inside the connection.update handler does not
\* stop the rest of the run: after a non-logout close the restart is scheduled
\* all the same, after a logout close the run goes on to delete the cached code
\* (and then to emit 'session_logged_out')
C16_FailedWriteSwallowed ==
    [][last'.step = "ConnCloseUpsertDone" /\ ~last'.wrote =>
        IF last'.t.upd.statusCode # LoggedOutCode
        THEN \E tm \in timers' \ timers : tm.id = last'.t.id
        ELSE \E t \in tasks' : t.id = last'.t.id /\ t.pc = "del"]_vars

\* C17: when the handler of a creds.update has saved the credentials the session
\* row exists; GET /session/:id/status answers with the status of the stored row
\* and with 'unknown' only when there is none (or the select failed); a row that
\* exists is never removed
C17_RowCreatedOnCredsUpdate ==
    [][/\ last'.step = "CredsSaveDone" /\ last'.ok =>
            \E id \in SessionIds : wa_sessions'[id] # Null
       /\ last'.step = "StatusSelectDone" /\ last'.ok =>
            last'.t.resp = Resp(200, IF wa_sessions[last'.t.param] = Null THEN "unknown"
                                     ELSE wa_sessions[last'.t.param])
       /\ \A id \in SessionIds : wa_sessions[id] # Null => wa_sessions'[id] # Null]_vars

Populated(x) == x # Null /\ x # ""

\* C19: the text of the payload built for an inbound message is the plain text
\* body if populated, else the extended text body if populated, else the image
\* caption if populated, else null; a message with text null is processed like
\* any other: each call that succeeds leaves its stream entry, its audit record
\* and its notification, with text null
C19_TextFirstPopulated ==
    [][/\ last'.step = "MessagesUpsert" /\ last'.t.pc = "xadd" =>
            LET m == last'.t.batch[1] IN
                last'.t.payload.text =
                    IF Populated(m.conversation) THEN m.conversation
                    ELSE IF Populated(m.extendedText) THEN m.extendedText
                    ELSE IF Populated(m.caption) THEN m.caption
                    ELSE Null
       /\ last'.step = "MessagesUpsert" /\ Len(last'.t.batch) > 0
                /\ ~last'.t.batch[1].fromMe
                /\ ~Populated(last'.t.batch[1].conversation)
                /\ ~Populated(last'.t.batch[1].extendedText)
                /\ ~Populated(last'.t.batch[1].caption) =>
            \E t \in tasks' \ tasks : t.pc = "xadd" /\ t.payload.text = Null
       /\ last'.step = "MsgXaddDone" /\ last'.ok /\ last'.t.payload.text = Null =>
            /\ stream' = Append(stream, last'.t.payload)
            /\ last'.t.pc = "insert"
       /\ last'.step = "MsgInsertDone" /\ last'.t.payload.text = Null =>
            /\ last'.wrote =>
                /\ Len(wa_messages') = Len(wa_messages) + 1
                /\ LastOf(wa_messages').payload = last'.t.payload
            /\ last'.ok /\ last'.emitOk =>
                emitted' = Append(emitted, EvMsg(last'.t.payload.chat_id, Null))
      ]_vars

\* a message with no text has been recorded and pushed to the end, after one
\* whose text came from the extended text body or the caption (the fields before
\* it being empty)
C19_Witness ==
    /\ last.step = "MsgInsertDone" /\ last.wrote /\ last.emitOk
    /\ last.t.payload.text = Null
    /\ LastOf(wa_messages).payload.text = Null
    /\ LastOf(emitted) = EvMsg(last.t.payload.chat_id, Null)
    /\ \E i \in 1..Len(stream) : stream[i].text \in {"quoted", "photo"}
    /\ \E i \in 1..Len(stream) : stream[i].text = Null

TimerIds(tms) == {tm.id : tm \in tms}
StartBotIds(ts) == {t.id : t \in {u \in ts : u.kind = "startBot"}}

\* C20: when startBot, called by a restart timer, throws before the new handle
\* is assigned, nothing happens but the end of that call: no restart is
\* scheduled, sock keeps the handle it had, no handle is made or subscribed and
\* the stored status stays what it was ('reconnecting' when nothing else wrote
\* since).  A restart is scheduled only by a close update and startBot is called
\* again only by a restart timer, so the chain of retries is over until a close
\* update comes
C20_FailedRestartEndsChain ==
    [][/\ last'.step \in {"StartBotAuthDone", "StartBotConstruct"}
                /\ ~last'.ok /\ last'.t.origin = "timer" =>
            /\ timers' = timers
            /\ sock' = sock /\ nHandles' = nHandles /\ listeners' = listeners
            /\ wa_sessions' = wa_sessions
            /\ StartBotIds(tasks') = StartBotIds(tasks) \ {last'.t.id}
       /\ TimerIds(timers') \subseteq TimerIds(timers)
            \/ (last'.step = "ConnCloseUpsertDone" /\ last'.t.upd.connection = "close")
       /\ StartBotIds(tasks') \subseteq StartBotIds(tasks) \/ last'.step = "TimerFire"]_vars

\* the restart after a close has failed at the construction of the client: the
\* status is still 'reconnecting', sock still holds the closed handle, no timer
\* is pending and no startBot is running
C20_Witness ==
    /\ last.step = "StartBotConstruct" /\ ~last.ok /\ last.t.origin = "timer"
    /\ Status = "reconnecting"
    /\ sock = 1 /\ nHandles = 1
    /\ timers = {}
    /\ StartBotIds(tasks) = {}

====
